---- MODULE Spec2Model ----
(***************************************************************************)
(* Driver for the nRF24L01+ radio: the Transmit-mode operations of         *)
(* src/src/tx.rs (send, poll_send, wait_empty, standby), the Device        *)
(* implementation and the constructor of src/src/lib.rs, the register      *)
(* setters of the configuration facade of src/src/config.rs, and the radio *)
(* chip they talk to over the bus (transmit FIFO, STATUS flags, CONFIG and *)
(* SETUP_AW registers, chip-enable pin).                                   *)
(*                                                                         *)
(* Spec starts from a constructed driver and follows the packets through   *)
(* Transmit mode; ConfigSpec starts before NRF24L01::new and follows       *)
(* construction, the facade and the mode transitions.                      *)
(*                                                                         *)
(* Every driver operation suspends only at a bus exchange, so each action  *)
(* of the driver is one bus exchange together with the code that follows   *)
(* it up to the next exchange; the chip may make progress between two      *)
(* exchanges.                                                              *)
(***************************************************************************)
EXTENDS Integers, Sequences, FiniteSets, TLC

----------------------------------------------------------------------------
\* Bounds of the model

\* Number of packets the caller queues with send() over a run (ids 1..MaxSends)
MaxSends == 4

\* Capacity of the chip's transmit FIFO (three packets on the nRF24L01+)
TxFifoDepth == 3

\* Number of receive pipes
PIPES_COUNT == 6

\* Largest address width of the chip, in bytes
MAX_ADDR_BYTES == 5

\* Smallest address width of the chip, in bytes
MIN_ADDR_BYTES == 2

\* Id of a packet that may already sit in the chip's transmit FIFO when the
\* driver is constructed: new() neither resets the chip nor flushes the FIFO.
StalePacket == MaxSends + 1

----------------------------------------------------------------------------
VARIABLES
    mode,          \* which mode value owns the Device: "Standby", "Rx", "Tx", or "None"
    pc,            \* position of the running operation ("idle" when none runs)
    caller,        \* operation that runs the wait_empty loop: "wait_empty" or "standby"
    ce,            \* level of the chip-enable output pin
    config,        \* NRF24L01.config, the cached CONFIG register
    chipConfig,    \* CONFIG register of the chip
    txFifo,        \* chip: transmit FIFO, head first
    tx_ds,         \* chip: STATUS.TX_DS (send done)
    max_rt,        \* chip: STATUS.MAX_RT (retransmit limit exceeded)
    we_empty,      \* wait_empty: the local `empty`
    log,           \* bus commands and pin writes of the running call (of the running
                   \* loop iteration in wait_empty), in order
    lastRead,      \* what the last FIFO_STATUS read returned: Status byte and TX_EMPTY
    result,        \* what the last finished operation returned
    nextId,        \* id of the next packet send() is called with
    sent,          \* packets the chip has transmitted
    flushed,       \* packets a FLUSH_TX discarded
    refused,       \* packets written while the FIFO was full
    pollFlushes,   \* FLUSH_TX commands issued by poll_send since TxMode::new
    pollOkFalse,   \* poll_send calls that returned Ok(false) since TxMode::new
    maxRtEvents,   \* times the chip raised MAX_RT since TxMode::new
    onlySendPoll,  \* only send and poll_send have been called since TxMode::new
    ceAtCall,      \* level of chip-enable when the last poll_send was called
    chipAw,        \* chip: the byte the SETUP_AW register holds
    todo,          \* set_pipes_rx_lengths: the commands it has still to send
    batch,         \* packets send queued since the previous Ok return of poll_send,
                   \* while only send and poll_send are called
    batchRet       \* "Open", or the Ok return of poll_send that closed the batch

chip == <<chipConfig, txFifo, tx_ds, max_rt>>
ghost == <<nextId, sent, flushed, refused, pollFlushes, pollOkFalse, maxRtEvents, onlySendPoll>>
probe == <<ceAtCall>>
extra == <<chipAw, todo>>
track == <<batch, batchRet>>
vars == <<mode, pc, caller, ce, config, chip, we_empty, log, lastRead, result, ghost, probe,
          extra, track>>

----------------------------------------------------------------------------
\* Register values

B(b) == IF b THEN 1 ELSE 0

Bit(v, n) == (v \div (2 ^ n)) % 2 = 1

SetBit(v, n, b) == v - B(Bit(v, n)) * (2 ^ n) + B(b) * (2 ^ n)

\* Status: bit5 send-done, bit4 retransmit-limit-exceeded, bit0 transmit-FIFO-full
StatusTxDs(s) == Bit(s, 5)
StatusMaxRt(s) == Bit(s, 4)
StatusTxFull(s) == Bit(s, 0)
StatusSetTxDs(s, b) == SetBit(s, 5, b)
StatusSetMaxRt(s, b) == SetBit(s, 4, b)
StatusSetRxDr(s, b) == SetBit(s, 6, b)

\* Config: bit0 primary receiver, bit1 power up
ConfigSetPrimRx(c, b) == SetBit(c, 0, b)
ConfigPrimRx(c) == Bit(c, 0)

\* Config: bit2 CRC width, bit3 CRC enable, bit4..bit6 interrupt masks
ConfigSetCrco(c, b) == SetBit(c, 2, b)
ConfigSetEnCrc(c, b) == SetBit(c, 3, b)
ConfigSetMaskMaxRt(c, b) == SetBit(c, 4, b)
ConfigSetMaskTxDs(c, b) == SetBit(c, 5, b)
ConfigSetMaskRxDr(c, b) == SetBit(c, 6, b)
ConfigSetPwrUp(c, b) == SetBit(c, 1, b)

\* SetupAw::aw: the address-width field read back from SETUP_AW
SetupAwAw(v) == v

\* Feature(0) with en_dyn_ack (bit0) and en_dpl (bit2) set
FeatureOfNew == SetBit(SetBit(0, 0, TRUE), 2, TRUE)

\* RfSetup(0) with rf_pwr (bit2..bit1), rf_dr_high (bit3) and rf_dr_low (bit5) set
RfSetupValue(power, dr_low, dr_high) ==
    SetBit(SetBit(2 * (power % 4), 3, dr_high), 5, dr_low)

\* SetupRetr(0) with ard (bit7..bit4) and arc (bit3..bit0) set
SetupRetrValue(delay, count) == 16 * (delay % 16) + (count % 16)

\* EnAa / EnRxaddr ::from_bools: pipe i is bit i
RECURSIVE FromBools(_)
FromBools(bools) ==
    IF bools = <<>> THEN 0 ELSE B(Head(bools)) + 2 * FromBools(Tail(bools))

\* Config(0b0000_1000) of new(), its three interrupt masks set to false
ConfigOfNew == SetBit(SetBit(SetBit(8, 6, FALSE), 5, FALSE), 4, FALSE)

\* The cached Config once StandbyMode::power_up has set PWR_UP
ConfigAfterNew == ConfigSetPwrUp(ConfigOfNew, TRUE)

\* SETUP_AW of a chip that holds its reset value: five-byte addresses
AwAfterReset == MAX_ADDR_BYTES - 2

----------------------------------------------------------------------------
\* The chip, as the bus sees it

\* Status byte shifted out as byte 0 of every exchange: no receive interrupt,
\* receive pipe number 0b111 (receive FIFO empty)
ChipStatus == 14 + 32 * B(tx_ds) + 16 * B(max_rt) + B(Len(txFifo) = TxFifoDepth)

\* FIFO_STATUS as read_register::<FifoStatus>() decodes it
ChipFifoStatus == [tx_empty |-> txFifo = <<>>, tx_full |-> Len(txFifo) = TxFifoDepth]

Range(s) == {s[i] : i \in 1..Len(s)}

\* FLUSH_TX empties the transmit FIFO; the STATUS flags are left alone
ChipFlushTx ==
    /\ txFifo' = <<>>
    /\ flushed' = flushed \cup Range(txFifo)

\* A write to STATUS clears the interrupt flags written as 1
ChipWriteStatus(v) ==
    /\ tx_ds' = (tx_ds /\ ~StatusTxDs(v))
    /\ max_rt' = (max_rt /\ ~StatusMaxRt(v))

\* W_TX_PAYLOAD queues the packet when the FIFO has space
ChipWriteTxPayload(p) ==
    IF Len(txFifo) < TxFifoDepth
    THEN txFifo' = Append(txFifo, p) /\ refused' = refused
    ELSE txFifo' = txFifo /\ refused' = refused \cup {p}

\* The chip sends while chip-enable is high, it is a transmitter, the FIFO holds
\* a packet and MAX_RT is clear ("TX won't continue while MAX_RT is set")
ChipCanTransmit == ce /\ ~ConfigPrimRx(chipConfig) /\ txFifo # <<>> /\ ~max_rt

\* The packet at the head was sent (and acknowledged): it leaves the FIFO
DeviceTransmitted ==
    /\ ChipCanTransmit
    /\ txFifo' = Tail(txFifo)
    /\ sent' = sent \cup {Head(txFifo)}
    /\ tx_ds' = TRUE
    /\ UNCHANGED <<mode, pc, caller, ce, config, chipConfig, max_rt, we_empty, log,
                   lastRead, result, nextId, flushed, refused, pollFlushes,
                   pollOkFalse, maxRtEvents, onlySendPoll, ceAtCall, extra, track>>

\* The retransmit budget of the packet at the head is exhausted: "If MAX_RT is
\* set, the packet is not removed from the FIFO"
DeviceMaxRt ==
    /\ ChipCanTransmit
    /\ max_rt' = TRUE
    /\ maxRtEvents' = maxRtEvents + 1
    /\ UNCHANGED <<mode, pc, caller, ce, config, chipConfig, txFifo, tx_ds, we_empty,
                   log, lastRead, result, nextId, sent, flushed, refused, pollFlushes,
                   pollOkFalse, onlySendPoll, ceAtCall, extra, track>>

----------------------------------------------------------------------------
\* Device (impl Device for NRF24L01)

Cmd(op, arg) == <<op, arg>>
CeHigh == <<"CE", 1>>
CeLow == <<"CE", 0>>

Ret(op, ret, val) == [op |-> op, ret |-> ret, val |-> val]

\* send_command: transfer_in_place(..).expect(..) panics when the bus exchange
\* fails; the mode value and the Device it owns are gone.
BusPanic(op) ==
    /\ mode' = "None"
    /\ pc' = "panicked"
    /\ result' = Ret(op, "Panic", 0)
    /\ UNCHANGED <<caller, ce, config, chip, we_empty, log, lastRead, ghost, probe, extra, track>>

\* Outcomes of one bus exchange
BusOutcomes == BOOLEAN

\* A clear value that forgets the MAX_RT bit
ClearOnlyTxDs == StatusSetTxDs(0, TRUE)

\* The Status value clear_interrupts_and_ce and wait_empty write
ClearTxInterrupts == StatusSetMaxRt(StatusSetTxDs(0, TRUE), TRUE)

----------------------------------------------------------------------------
\* TxMode (src/src/tx.rs)

InTx == mode = "Tx" /\ pc = "idle"

\* Bookkeeping of send: the packet joins the batch when the FIFO took it; the
\* first send after an Ok return of poll_send starts a new batch
QueueInBatch(p) ==
    LET open == IF batchRet = "Open" THEN batch ELSE {}
    IN /\ batch' = IF onlySendPoll /\ Len(txFifo) < TxFifoDepth
                   THEN open \cup {p}
                   ELSE open
       /\ batchRet' = "Open"

\* Bookkeeping of poll_send: an Ok return closes the batch; a further Ok return
\* with no send in between closes an empty one
CloseBatch(ret) ==
    /\ batch' = IF batchRet = "Open" THEN batch ELSE {}
    /\ batchRet' = IF onlySendPoll THEN ret ELSE "Open"

\* Bookkeeping of TxMode::new, wait_empty and flush_tx: no batch is kept
NoBatch ==
    /\ batch' = {}
    /\ batchRet' = "Open"

\* send that queues the packet and does not raise chip-enable
SendWithoutCe ==
    /\ InTx
    /\ nextId <= MaxSends
    /\ ChipWriteTxPayload(nextId)
    /\ log' = <<Cmd("W_TX_PAYLOAD", nextId)>>
    /\ result' = Ret("send", "Ok", ChipStatus)
    /\ nextId' = nextId + 1
    /\ QueueInBatch(nextId)
    /\ UNCHANGED <<mode, pc, caller, ce, config, chipConfig, tx_ds, max_rt,
                   we_empty, lastRead, sent, flushed, pollFlushes,
                   pollOkFalse, maxRtEvents, onlySendPoll, ceAtCall, extra>>

\* send(packet): one W_TX_PAYLOAD exchange, then ce_enable(); returns the Status
\* byte of that exchange
Send ==
    /\ InTx
    /\ nextId <= MaxSends
    /\ \E ok \in BusOutcomes :
         IF ok
         THEN /\ ChipWriteTxPayload(nextId)
              /\ ce' = TRUE
              /\ log' = <<Cmd("W_TX_PAYLOAD", nextId), CeHigh>>
              /\ result' = Ret("send", "Ok", ChipStatus)
              /\ nextId' = nextId + 1
              /\ QueueInBatch(nextId)
              /\ UNCHANGED <<mode, pc, caller, config, chipConfig, tx_ds, max_rt,
                             we_empty, lastRead, sent, flushed, pollFlushes,
                             pollOkFalse, maxRtEvents, onlySendPoll, ceAtCall, extra>>
         ELSE BusPanic("send")

\* poll_send whose last branch does not raise chip-enable again
PollSendPendingKeepCe ==
    /\ ce' = ce
    /\ pc' = "idle"
    /\ log' = <<Cmd("R_FIFO_STATUS", 0)>>
    /\ result' = Ret("poll_send", "WouldBlock", 0)

\* poll_send, last branch: ce_enable(); Err(nb::Error::WouldBlock)
PollSendPending ==
    /\ ce' = TRUE
    /\ pc' = "idle"
    /\ log' = <<Cmd("R_FIFO_STATUS", 0), CeHigh>>
    /\ result' = Ret("poll_send", "WouldBlock", 0)

\* poll_send, from the call to the end of the branch on the values read:
\* read_register::<FifoStatus>(), then
\*   max_rt            -> go on to the FLUSH_TX exchange
\*   tx_empty          -> go on to clear_interrupts_and_ce
\*   otherwise         -> ce_enable(), Err(WouldBlock)
PollSend ==
    /\ InTx
    /\ \E ok \in BusOutcomes :
         IF ok
         THEN /\ lastRead' = [status |-> ChipStatus, tx_empty |-> ChipFifoStatus.tx_empty]
              /\ ceAtCall' = ce
              /\ IF StatusMaxRt(ChipStatus)
                 THEN /\ pc' = "poll_flush"
                      /\ log' = <<Cmd("R_FIFO_STATUS", 0)>>
                      /\ UNCHANGED <<ce, result>>
                 ELSE IF ChipFifoStatus.tx_empty
                 THEN /\ pc' = "poll_clear_true"
                      /\ log' = <<Cmd("R_FIFO_STATUS", 0)>>
                      /\ UNCHANGED <<ce, result>>
                 ELSE PollSendPending
              /\ UNCHANGED <<mode, caller, config, chip, we_empty, ghost, extra, track>>
         ELSE BusPanic("poll_send")

\* poll_send with the flush-on-limit step left out
PollSendFlushOmitted ==
    /\ mode = "Tx"
    /\ pc = "poll_flush"
    /\ pc' = "poll_clear_false"
    /\ UNCHANGED <<mode, caller, ce, config, chip, we_empty, log, lastRead, result,
                   ghost, probe, extra, track>>

\* poll_send, max_rt branch: send_command(&FlushTx)
PollSendFlush ==
    /\ mode = "Tx"
    /\ pc = "poll_flush"
    /\ \E ok \in BusOutcomes :
         IF ok
         THEN /\ ChipFlushTx
              /\ pollFlushes' = pollFlushes + 1
              /\ log' = Append(log, Cmd("FLUSH_TX", 0))
              /\ pc' = "poll_clear_false"
              /\ UNCHANGED <<mode, caller, ce, config, chipConfig, tx_ds, max_rt,
                             we_empty, lastRead, result, nextId, sent, refused,
                             pollOkFalse, maxRtEvents, onlySendPoll, ceAtCall, extra, track>>
         ELSE BusPanic("poll_send")

\* clear_interrupts_and_ce that leaves chip-enable as it is
ClearInterruptsKeepCe(ret) ==
    /\ ChipWriteStatus(ClearTxInterrupts)
    /\ ce' = ce
    /\ log' = log \o <<Cmd("W_STATUS", ClearTxInterrupts)>>
    /\ result' = Ret("poll_send", IF ret THEN "OkTrue" ELSE "OkFalse", 0)
    /\ pollOkFalse' = pollOkFalse + B(~ret)
    /\ pc' = "idle"
    /\ CloseBatch(IF ret THEN "OkTrue" ELSE "OkFalse")
    /\ UNCHANGED <<mode, caller, config, chipConfig, txFifo, we_empty, lastRead,
                   nextId, sent, flushed, refused, pollFlushes, maxRtEvents,
                   onlySendPoll, ceAtCall, extra>>

\* clear_interrupts_and_ce followed by Ok(true) in both branches
ClearInterruptsReportTrue(ret) ==
    /\ ChipWriteStatus(ClearTxInterrupts)
    /\ ce' = FALSE
    /\ log' = log \o <<Cmd("W_STATUS", ClearTxInterrupts), CeLow>>
    /\ result' = Ret("poll_send", "OkTrue", 0)
    /\ pollOkFalse' = pollOkFalse
    /\ pc' = "idle"
    /\ CloseBatch("OkTrue")
    /\ UNCHANGED <<mode, caller, config, chipConfig, txFifo, we_empty, lastRead,
                   nextId, sent, flushed, refused, pollFlushes, maxRtEvents,
                   onlySendPoll, ceAtCall, extra>>

\* clear_interrupts_and_ce, then the Ok(..) of the poll_send branch that called
\* it: write Status with TX_DS and MAX_RT set, ce_disable()
ClearInterruptsAndCe(ret) ==
    /\ ChipWriteStatus(ClearTxInterrupts)
    /\ ce' = FALSE
    /\ log' = log \o <<Cmd("W_STATUS", ClearTxInterrupts), CeLow>>
    /\ result' = Ret("poll_send", IF ret THEN "OkTrue" ELSE "OkFalse", 0)
    /\ pollOkFalse' = pollOkFalse + B(~ret)
    /\ pc' = "idle"
    /\ CloseBatch(IF ret THEN "OkTrue" ELSE "OkFalse")
    /\ UNCHANGED <<mode, caller, config, chipConfig, txFifo, we_empty, lastRead,
                   nextId, sent, flushed, refused, pollFlushes, maxRtEvents,
                   onlySendPoll, ceAtCall, extra>>

PollSendClear ==
    /\ mode = "Tx"
    /\ pc \in {"poll_clear_true", "poll_clear_false"}
    /\ \E ok \in BusOutcomes :
         IF ok
         THEN ClearInterruptsAndCe(pc = "poll_clear_true")
         ELSE BusPanic("poll_send")

\* wait_empty that leaves the loop after any pass
WaitEmptyLoopEndAnyPass(op, empty, ceNow, logNow) ==
    /\ ce' = FALSE
    /\ pc' = "idle"
    /\ IF op = "standby"
       THEN /\ mode' = "Standby"
            /\ log' = logNow \o <<CeLow, CeLow>>
            /\ result' = Ret("standby", "Ok", 0)
       ELSE /\ mode' = mode
            /\ log' = Append(logNow, CeLow)
            /\ result' = Ret("wait_empty", "Ok", 0)

\* wait_empty, end of one pass of `while !empty`: leave the loop, ce_disable() and
\* return when `empty`, else go round again. standby() then wraps the Device with
\* StandbyMode::from_rx_tx, which lowers chip-enable.
WaitEmptyLoopEnd(op, empty, ceNow, logNow) ==
    IF empty
    THEN /\ ce' = FALSE
         /\ pc' = "idle"
         /\ IF op = "standby"
            THEN /\ mode' = "Standby"
                 /\ log' = logNow \o <<CeLow, CeLow>>
                 /\ result' = Ret("standby", "Ok", 0)
            ELSE /\ mode' = mode
                 /\ log' = Append(logNow, CeLow)
                 /\ result' = Ret("wait_empty", "Ok", 0)
    ELSE /\ ce' = ceNow
         /\ pc' = "we_read"
         /\ log' = logNow
         /\ UNCHANGED <<mode, result>>

\* wait_empty, one pass of the loop up to the next bus exchange:
\* read_register::<FifoStatus>(); empty = tx_empty; if !empty { ce_enable() };
\* if max_rt, go on to the FLUSH_TX exchange, else the pass ends
WaitEmptyPass(op) ==
    \E ok \in BusOutcomes :
      IF ok
      THEN LET empty == ChipFifoStatus.tx_empty
               ceNow == IF empty THEN ce ELSE TRUE
               logNow == IF empty THEN <<Cmd("R_FIFO_STATUS", 0)>>
                                  ELSE <<Cmd("R_FIFO_STATUS", 0), CeHigh>>
           IN /\ lastRead' = [status |-> ChipStatus, tx_empty |-> empty]
              /\ we_empty' = empty
              /\ caller' = op
              /\ onlySendPoll' = FALSE
              /\ NoBatch
              /\ IF StatusMaxRt(ChipStatus)
                 THEN /\ ce' = ceNow
                      /\ pc' = "we_flush"
                      /\ log' = logNow
                      /\ UNCHANGED <<mode, result>>
                 ELSE WaitEmptyLoopEnd(op, empty, ceNow, logNow)
              /\ UNCHANGED <<config, chip, nextId, sent, flushed, refused,
                             pollFlushes, pollOkFalse, maxRtEvents, probe, extra>>
      ELSE BusPanic(op)

\* wait_empty(): the call and the first pass of the loop
WaitEmpty == InTx /\ WaitEmptyPass("wait_empty")

\* standby that wraps the Device without draining the FIFO
StandbyWithoutDrain ==
    /\ InTx
    /\ mode' = "Standby"
    /\ result' = Ret("standby", "Ok", 0)
    /\ UNCHANGED <<pc, caller, ce, config, chip, we_empty, log, lastRead, ghost, probe, extra, track>>

\* standby(): self.wait_empty().await?, the call and the first pass of its loop
Standby == InTx /\ WaitEmptyPass("standby")

\* wait_empty: a further pass of the loop
WaitEmptyLoop == mode = "Tx" /\ pc = "we_read" /\ WaitEmptyPass(caller)

\* wait_empty with the flush-on-limit step left out
WaitEmptyFlushOmitted ==
    /\ mode = "Tx"
    /\ pc = "we_flush"
    /\ pc' = "we_clear"
    /\ UNCHANGED <<mode, caller, ce, config, chip, we_empty, log, lastRead, result,
                   ghost, probe, extra, track>>

\* wait_empty, max_rt branch: send_command(&FlushTx)
WaitEmptyFlush ==
    /\ mode = "Tx"
    /\ pc = "we_flush"
    /\ \E ok \in BusOutcomes :
         IF ok
         THEN /\ ChipFlushTx
              /\ log' = Append(log, Cmd("FLUSH_TX", 0))
              /\ pc' = "we_clear"
              /\ UNCHANGED <<mode, caller, ce, config, chipConfig, tx_ds, max_rt,
                             we_empty, lastRead, result, nextId, sent, refused,
                             pollFlushes, pollOkFalse, maxRtEvents, onlySendPoll, ceAtCall, extra, track>>
         ELSE BusPanic(caller)

\* wait_empty, max_rt branch: write_register(clear), then the pass ends
WaitEmptyClear ==
    /\ mode = "Tx"
    /\ pc = "we_clear"
    /\ \E ok \in BusOutcomes :
         IF ok
         THEN /\ ChipWriteStatus(ClearTxInterrupts)
              /\ WaitEmptyLoopEnd(caller, we_empty, ce,
                                  Append(log, Cmd("W_STATUS", ClearTxInterrupts)))
              /\ UNCHANGED <<caller, config, chipConfig, txFifo, we_empty, lastRead,
                             ghost, probe, extra, track>>
         ELSE BusPanic(caller)

----------------------------------------------------------------------------
\* Configuration facade (src/src/config.rs)

\* flush_tx that also lowers chip-enable
FlushTxLoweringCe ==
    /\ mode \in {"Standby", "Rx", "Tx"}
    /\ pc = "idle"
    /\ ChipFlushTx
    /\ ce' = FALSE
    /\ log' = <<Cmd("FLUSH_TX", 0), CeLow>>
    /\ result' = Ret("flush_tx", "Ok", 0)
    /\ onlySendPoll' = FALSE
    /\ NoBatch
    /\ UNCHANGED <<mode, pc, caller, config, chipConfig, tx_ds, max_rt,
                   we_empty, lastRead, nextId, sent, refused, pollFlushes,
                   pollOkFalse, maxRtEvents, probe, extra>>

\* flush_tx(): one FLUSH_TX exchange, in any mode
FlushTx ==
    /\ mode \in {"Standby", "Rx", "Tx"}
    /\ pc = "idle"
    /\ \E ok \in BusOutcomes :
         IF ok
         THEN /\ ChipFlushTx
              /\ log' = <<Cmd("FLUSH_TX", 0)>>
              /\ result' = Ret("flush_tx", "Ok", 0)
              /\ onlySendPoll' = FALSE
              /\ NoBatch
              /\ UNCHANGED <<mode, pc, caller, ce, config, chipConfig, tx_ds, max_rt,
                             we_empty, lastRead, nextId, sent, refused, pollFlushes,
                             pollOkFalse, maxRtEvents, probe, extra>>
         ELSE BusPanic("flush_tx")

----------------------------------------------------------------------------
\* Mode transitions out of Standby and Receive

\* update_config that writes the Config back whether or not it changed
UpdateConfigAlwaysWrites(after, new, ok) ==
    /\ config' = new
    /\ IF ok
       THEN /\ chipConfig' = new
            /\ pc' = "idle"
            /\ log' = <<Cmd("W_CONFIG", new)>> \o after
       ELSE /\ chipConfig' = chipConfig
            /\ pc' = "panicked"
            /\ log' = <<>>

\* update_config(f): mutate the cached Config, then write it back when it differs
\* from what it was; `after` is what the caller does once the call has returned
UpdateConfig(after, new, ok) ==
    /\ config' = new
    /\ IF new # config
       THEN IF ok
            THEN /\ chipConfig' = new
                 /\ pc' = "idle"
                 /\ log' = <<Cmd("W_CONFIG", new)>> \o after
            ELSE /\ chipConfig' = chipConfig
                 /\ pc' = "panicked"
                 /\ log' = <<>>
       ELSE /\ chipConfig' = chipConfig
            /\ pc' = "idle"
            /\ log' = after

\* StandbyMode::tx(): clear PRIM_RX; chip-enable stays low; TxMode::new(device)
StandbyToTx ==
    /\ mode = "Standby"
    /\ pc = "idle"
    /\ \E ok \in BusOutcomes :
         /\ UpdateConfig(<<>>, ConfigSetPrimRx(config, FALSE), ok)
         /\ IF pc' = "idle"
            THEN /\ mode' = "Tx"
                 /\ result' = Ret("tx", "Ok", 0)
                 /\ pollFlushes' = 0
                 /\ pollOkFalse' = 0
                 /\ maxRtEvents' = B(max_rt)
                 /\ onlySendPoll' = TRUE
            ELSE /\ mode' = "None"
                 /\ result' = Ret("tx", "Panic", 0)
                 /\ UNCHANGED <<pollFlushes, pollOkFalse, maxRtEvents, onlySendPoll>>
         /\ NoBatch
         /\ UNCHANGED <<caller, ce, txFifo, tx_ds, max_rt, we_empty, lastRead, nextId,
                        sent, flushed, refused, probe, extra>>

\* StandbyMode::rx(): set PRIM_RX, raise chip-enable
StandbyToRx ==
    /\ mode = "Standby"
    /\ pc = "idle"
    /\ \E ok \in BusOutcomes :
         /\ UpdateConfig(<<CeHigh>>, ConfigSetPrimRx(config, TRUE), ok)
         /\ IF pc' = "idle"
            THEN /\ mode' = "Rx"
                 /\ ce' = TRUE
                 /\ result' = Ret("rx", "Ok", 0)
            ELSE /\ mode' = "None"
                 /\ result' = Ret("rx", "Panic", 0)
                 /\ ce' = ce
         /\ UNCHANGED <<caller, txFifo, tx_ds, max_rt, we_empty, lastRead, ghost, probe,
                        extra, track>>

\* RxMode::standby(): StandbyMode::from_rx_tx lowers chip-enable
RxToStandby ==
    /\ mode = "Rx"
    /\ pc = "idle"
    /\ mode' = "Standby"
    /\ ce' = FALSE
    /\ log' = <<CeLow>>
    /\ result' = Ret("rx_standby", "Ok", 0)
    /\ UNCHANGED <<pc, caller, config, chip, we_empty, lastRead, ghost, probe, extra, track>>

----------------------------------------------------------------------------
\* Configuration facade (src/src/config.rs), the register setters

\* Values the caller passes to the setters
FreqInputs == {125, 126}
PowerInputs == {3, 4}
RateInputs == {"R250Kbps", "R2Mbps"}
CrcInputs == {"Disabled", "OneByte", "TwoBytes"}
MaskInputs == {<<FALSE, FALSE, FALSE>>, <<TRUE, FALSE, TRUE>>}
PipeInputs == {0, PIPES_COUNT - 1, PIPES_COUNT}
AddrInputs == {<<1, 2, 3, 4, 5>>}
BoolsInputs == {[i \in 1..PIPES_COUNT |-> i <= 2]}
RetrInputs == {<<1, 15>>}
WidthInputs == {MIN_ADDR_BYTES - 1, MIN_ADDR_BYTES, MAX_ADDR_BYTES, MAX_ADDR_BYTES + 1}

\* The facade runs between two operations of whichever mode owns the Device
FacadeReady == mode \in {"Standby", "Rx", "Tx"} /\ pc = "idle"

\* What a setter that returns leaves alone
FacadeFrame ==
    /\ onlySendPoll' = FALSE
    /\ NoBatch
    /\ UNCHANGED <<mode, pc, caller, ce, config, chip, we_empty, lastRead, nextId, sent,
                   flushed, refused, pollFlushes, pollOkFalse, maxRtEvents, probe>>

\* assert!(..) failed, or panic!(..): the call aborts before any bus exchange
FacadeAbort(op, arg) ==
    /\ mode' = "None"
    /\ pc' = "panicked"
    /\ log' = <<>>
    /\ result' = Ret(op, "Abort", arg)
    /\ UNCHANGED <<caller, ce, config, chip, we_empty, lastRead, ghost, probe, extra, track>>

\* device().write_register(register).await?; Ok(()) : one write exchange, whatever
\* the chip holds; `arg` is the caller's input
WriteRegister(op, reg, val, arg) ==
    \E ok \in BusOutcomes :
      IF ok
      THEN /\ log' = <<Cmd(reg, val)>>
           /\ result' = Ret(op, "Ok", arg)
           /\ chipAw' = IF reg = "W_SETUP_AW" THEN val ELSE chipAw
           /\ todo' = todo
           /\ FacadeFrame
      ELSE BusPanic(op)

\* set_frequency without its assert
SetFrequencyUnchecked ==
    /\ FacadeReady
    /\ \E freq_offset \in FreqInputs :
         WriteRegister("set_frequency", "W_RF_CH", freq_offset % 128, freq_offset)

\* set_frequency(freq_offset): assert!(freq_offset < 126), write RfCh
SetFrequency ==
    /\ FacadeReady
    /\ \E freq_offset \in FreqInputs :
         IF freq_offset < 126
         THEN WriteRegister("set_frequency", "W_RF_CH", freq_offset, freq_offset)
         ELSE FacadeAbort("set_frequency", freq_offset)

\* set_rf(rate, power): assert!(power < 0b100), write RfSetup
SetRf ==
    /\ FacadeReady
    /\ \E rate \in RateInputs, power \in PowerInputs :
         IF power < 4
         THEN WriteRegister("set_rf", "W_RF_SETUP",
                            RfSetupValue(power, rate = "R250Kbps", rate = "R2Mbps"), power)
         ELSE FacadeAbort("set_rf", power)

\* CrcMode::set_config
CrcSetConfig(m, c) == ConfigSetCrco(ConfigSetEnCrc(c, m # "Disabled"), m = "TwoBytes")

\* What a facade call that went through update_config leaves alone
UpdateConfigFrame(op) ==
    /\ IF pc' = "idle"
       THEN /\ mode' = mode
            /\ result' = Ret(op, "Ok", 0)
       ELSE /\ mode' = "None"
            /\ result' = Ret(op, "Panic", 0)
    /\ onlySendPoll' = FALSE
    /\ NoBatch
    /\ UNCHANGED <<caller, ce, txFifo, tx_ds, max_rt, we_empty, lastRead, nextId, sent,
                   flushed, refused, pollFlushes, pollOkFalse, maxRtEvents, probe, extra>>

\* set_crc(mode): update_config(|config| mode.set_config(config))
SetCrcTo(m) ==
    /\ FacadeReady
    /\ \E ok \in BusOutcomes :
         /\ UpdateConfig(<<>>, CrcSetConfig(m, config), ok)
         /\ UpdateConfigFrame("set_crc")

SetCrc == \E m \in CrcInputs : SetCrcTo(m)

\* set_interrupt_mask(rx_dr, tx_ds, max_rt): update_config of the three mask bits
SetInterruptMaskTo(m) ==
    /\ FacadeReady
    /\ \E ok \in BusOutcomes :
         /\ UpdateConfig(<<>>, ConfigSetMaskMaxRt(ConfigSetMaskTxDs(
                               ConfigSetMaskRxDr(config, m[1]), m[2]), m[3]), ok)
         /\ UpdateConfigFrame("set_interrupt_mask")

SetInterruptMask == \E m \in MaskInputs : SetInterruptMaskTo(m)

\* set_pipes_rx_enable(bools): write EnRxaddr::from_bools(bools)
SetPipesRxEnable ==
    /\ FacadeReady
    /\ \E bools \in BoolsInputs :
         WriteRegister("set_pipes_rx_enable", "W_EN_RXADDR", FromBools(bools), 0)

\* The write command of the address register of a pipe
RxAddrReg(pipe_no) ==
    <<"W_RX_ADDR_P0", "W_RX_ADDR_P1", "W_RX_ADDR_P2", "W_RX_ADDR_P3", "W_RX_ADDR_P4",
      "W_RX_ADDR_P5">>[pipe_no + 1]

\* set_rx_addr(pipe_no, addr): write RxAddrPn::new(addr) for pipe_no in 0..5, else
\* panic!("No such pipe"); the command is logged with the number of address bytes
SetRxAddr ==
    /\ FacadeReady
    /\ \E pipe_no \in PipeInputs, addr \in AddrInputs :
         IF pipe_no < PIPES_COUNT
         THEN WriteRegister("set_rx_addr", RxAddrReg(pipe_no), Len(addr), pipe_no)
         ELSE FacadeAbort("set_rx_addr", pipe_no)

\* set_tx_addr(addr): write TxAddr::new(addr)
SetTxAddr ==
    /\ FacadeReady
    /\ \E addr \in AddrInputs :
         WriteRegister("set_tx_addr", "W_TX_ADDR", Len(addr), 0)

\* set_auto_retransmit(delay, count): write SetupRetr
SetAutoRetransmit ==
    /\ FacadeReady
    /\ \E r \in RetrInputs :
         WriteRegister("set_auto_retransmit", "W_SETUP_RETR", SetupRetrValue(r[1], r[2]), 0)

\* set_auto_ack(bools): write EnAa::from_bools(bools)
SetAutoAck ==
    /\ FacadeReady
    /\ \E bools \in BoolsInputs :
         WriteRegister("set_auto_ack", "W_EN_AA", FromBools(bools), 0)

\* set_address_width(width): SetupAw(width - 2) in u8 arithmetic, then the write.
\* For width < 2 the subtraction overflows: a build with overflow checks panics
\* there, a build without them wraps around.
SetAddressWidthTo(width) ==
    /\ FacadeReady
    /\ \E overflow_checks \in BOOLEAN :
         IF width < 2 /\ overflow_checks
         THEN FacadeAbort("set_address_width", width)
         ELSE WriteRegister("set_address_width", "W_SETUP_AW", (width + 256 - 2) % 256, width)

SetAddressWidth == \E width \in WidthInputs : SetAddressWidthTo(width)

\* One exchange that changes nothing the model keeps of the chip, then Ok(..)
Exchange(op, cmd, val) ==
    \E ok \in BusOutcomes :
      IF ok
      THEN /\ log' = <<cmd>>
           /\ result' = Ret(op, "Ok", val)
           /\ UNCHANGED extra
           /\ FacadeFrame
      ELSE BusPanic(op)

\* flush_rx(): one FLUSH_RX exchange
FlushRx == FacadeReady /\ Exchange("flush_rx", Cmd("FLUSH_RX", 0), 0)

\* get_frequency(): one read of RF_CH (the register's content is not kept here)
GetFrequency == FacadeReady /\ Exchange("get_frequency", Cmd("R_RF_CH", 0), 0)

\* get_auto_ack(): one read of EN_AA (the register's content is not kept here)
GetAutoAck == FacadeReady /\ Exchange("get_auto_ack", Cmd("R_EN_AA", 0), 0)

\* get_address_width(): one read of SETUP_AW, Ok(2 + register.aw()) in u8
\* arithmetic; an overflowing sum panics in a build with overflow checks and wraps
\* around in one without
GetAddressWidth ==
    /\ FacadeReady
    /\ \E ok \in BusOutcomes, overflow_checks \in BOOLEAN :
         IF ~ok
         THEN BusPanic("get_address_width")
         ELSE IF 2 + SetupAwAw(chipAw) > 255 /\ overflow_checks
         THEN /\ mode' = "None"
              /\ pc' = "panicked"
              /\ log' = <<Cmd("R_SETUP_AW", 0)>>
              /\ result' = Ret("get_address_width", "Abort", 0)
              /\ UNCHANGED <<caller, ce, config, chip, we_empty, lastRead, ghost, probe,
                             extra, track>>
         ELSE /\ log' = <<Cmd("R_SETUP_AW", 0)>>
              /\ result' = Ret("get_address_width", "Ok", (2 + SetupAwAw(chipAw)) % 256)
              /\ UNCHANGED extra
              /\ FacadeFrame

\* get_interrupts(): one NOP exchange; the flags are decoded from its Status byte
GetInterrupts == FacadeReady /\ Exchange("get_interrupts", Cmd("NOP", 0), ChipStatus)

\* The Status value clear_interrupts writes: RX_DR, TX_DS and MAX_RT
ClearAllInterrupts == StatusSetMaxRt(StatusSetTxDs(StatusSetRxDr(0, TRUE), TRUE), TRUE)

\* clear_interrupts(): write Status with the three interrupt flags set
ClearInterrupts ==
    /\ FacadeReady
    /\ \E ok \in BusOutcomes :
         IF ok
         THEN /\ ChipWriteStatus(ClearAllInterrupts)
              /\ log' = <<Cmd("W_STATUS", ClearAllInterrupts)>>
              /\ result' = Ret("clear_interrupts", "Ok", 0)
              /\ onlySendPoll' = FALSE
              /\ NoBatch
              /\ UNCHANGED <<mode, pc, caller, ce, config, chipConfig, txFifo, we_empty,
                             lastRead, nextId, sent, flushed, refused, pollFlushes,
                             pollOkFalse, maxRtEvents, probe, extra>>
         ELSE BusPanic("clear_interrupts")

\* lengths: &[Option<u8>; PIPES_COUNT], None as <<>> and Some(len) as <<len>>:
\* static 32-byte payloads on every pipe, and the same with pipe 0 dynamic
LengthsInputs ==
    {[i \in 1..PIPES_COUNT |-> <<32>>],
     [i \in 1..PIPES_COUNT |-> IF i = 1 THEN <<>> ELSE <<32>>]}

\* The write command of the payload-length register of a pipe
RxPwReg(pipe_no) ==
    <<"W_RX_PW_P0", "W_RX_PW_P1", "W_RX_PW_P2", "W_RX_PW_P3", "W_RX_PW_P4",
      "W_RX_PW_P5">>[pipe_no + 1]

\* The exchanges of set_pipes_rx_lengths(lengths), in order: when a pipe is
\* dynamic, update_register::<Feature> (read, then write with en_dpl set); DYNPD;
\* RX_PW_P0..RX_PW_P5 with length.unwrap_or(0)
RxLengthsCommands(lengths) ==
    LET dynpd == FromBools([i \in 1..PIPES_COUNT |-> lengths[i] = <<>>])
    IN (IF dynpd # 0
        THEN <<Cmd("R_FEATURE", 0), Cmd("W_FEATURE", SetBit(FeatureOfNew, 2, TRUE))>>
        ELSE <<>>)
       \o <<Cmd("W_DYNPD", dynpd)>>
       \o [i \in 1..PIPES_COUNT |->
             Cmd(RxPwReg(i - 1), IF lengths[i] = <<>> THEN 0 ELSE lengths[i][1])]

\* set_pipes_rx_lengths(lengths): the call and its first exchange
SetPipesRxLengths ==
    /\ FacadeReady
    /\ \E lengths \in LengthsInputs, ok \in BusOutcomes :
         IF ok
         THEN /\ log' = <<Head(RxLengthsCommands(lengths))>>
              /\ todo' = Tail(RxLengthsCommands(lengths))
              /\ pc' = "rx_lengths"
              /\ onlySendPoll' = FALSE
              /\ NoBatch
              /\ UNCHANGED <<mode, caller, ce, config, chip, we_empty, lastRead, result,
                             nextId, sent, flushed, refused, pollFlushes, pollOkFalse,
                             maxRtEvents, probe, chipAw>>
         ELSE BusPanic("set_pipes_rx_lengths")

\* set_pipes_rx_lengths: a further exchange; Ok(()) after the last one
SetPipesRxLengthsNext ==
    /\ mode \in {"Standby", "Rx", "Tx"}
    /\ pc = "rx_lengths"
    /\ \E ok \in BusOutcomes :
         IF ok
         THEN /\ log' = Append(log, Head(todo))
              /\ todo' = Tail(todo)
              /\ IF Tail(todo) = <<>>
                 THEN /\ pc' = "idle"
                      /\ result' = Ret("set_pipes_rx_lengths", "Ok", 0)
                 ELSE /\ pc' = pc
                      /\ result' = result
              /\ UNCHANGED <<mode, caller, ce, config, chip, we_empty, lastRead, ghost,
                             probe, chipAw, track>>
         ELSE BusPanic("set_pipes_rx_lengths")

----------------------------------------------------------------------------
\* Construction (NRF24L01::new in src/src/lib.rs)

\* SETUP_AW as is_connected may read it: a chip configured for 3-byte addresses,
\* a chip at its reset value, and a bus that reads all ones (no chip)
AwReadbacks == {1, AwAfterReset, 255}

\* new() that skips the is_connected() probe
NewWithoutProbe ==
    /\ mode = "None"
    /\ pc = "unbuilt"
    /\ ce' = FALSE
    /\ config' = ConfigOfNew
    /\ log' = <<CeLow>>
    /\ pc' = "new_feature"
    /\ UNCHANGED <<mode, caller, chip, we_empty, lastRead, result, ghost, probe, extra, track>>

\* new(), up to the end of the match on is_connected(): ce.set_low(), the cached
\* Config, one read of SETUP_AW, Err(NotConnected) unless aw() <= 3
New ==
    /\ mode = "None"
    /\ pc = "unbuilt"
    /\ ce' = FALSE
    /\ config' = ConfigOfNew
    /\ \E ok \in BusOutcomes :
         IF ok
         THEN /\ log' = <<CeLow, Cmd("R_SETUP_AW", 0)>>
              /\ IF SetupAwAw(chipAw) <= 3
                 THEN /\ pc' = "new_feature"
                      /\ result' = result
                 ELSE /\ pc' = "failed"
                      /\ result' = Ret("new", "NotConnected", 0)
         ELSE /\ log' = <<CeLow>>
              /\ pc' = "panicked"
              /\ result' = Ret("new", "Panic", 0)
    /\ UNCHANGED <<mode, caller, chip, we_empty, lastRead, ghost, probe, extra, track>>

\* new(): write_register(features)
NewFeature ==
    /\ mode = "None"
    /\ pc = "new_feature"
    /\ \E ok \in BusOutcomes :
         IF ok
         THEN /\ log' = Append(log, Cmd("W_FEATURE", FeatureOfNew))
              /\ pc' = "new_power_up"
              /\ UNCHANGED <<mode, caller, ce, config, chip, we_empty, lastRead, result,
                             ghost, probe, extra, track>>
         ELSE BusPanic("new")

\* new(): StandbyMode::power_up(device) sets PWR_UP through update_config and
\* wraps the Device
NewPowerUp ==
    /\ mode = "None"
    /\ pc = "new_power_up"
    /\ \E ok \in BusOutcomes :
         /\ UpdateConfig(<<>>, ConfigSetPwrUp(config, TRUE), ok)
         /\ IF pc' = "idle"
            THEN /\ mode' = "Standby"
                 /\ result' = Ret("new", "Ok", 0)
            ELSE /\ mode' = "None"
                 /\ result' = Ret("new", "Panic", 0)
    /\ UNCHANGED <<caller, ce, txFifo, tx_ds, max_rt, we_empty, lastRead, ghost, probe,
                   extra, track>>

----------------------------------------------------------------------------
\* The driver right after NRF24L01::new succeeded: Standby, chip-enable low,
\* CONFIG powered up. The chip may still hold a packet queued before the driver
\* was constructed (new() does not flush the transmit FIFO).
Init ==
    /\ mode = "Standby"
    /\ pc = "idle"
    /\ caller = "none"
    /\ ce = FALSE
    /\ config = ConfigAfterNew
    /\ chipConfig = ConfigAfterNew
    /\ txFifo \in {<<>>, <<StalePacket>>}
    /\ tx_ds = FALSE
    /\ max_rt = FALSE
    /\ we_empty = FALSE
    /\ log = <<>>
    /\ lastRead = [status |-> 0, tx_empty |-> FALSE]
    /\ result = Ret("new", "Ok", 0)
    /\ nextId = 1
    /\ sent = {}
    /\ flushed = {}
    /\ refused = {}
    /\ pollFlushes = 0
    /\ pollOkFalse = 0
    /\ maxRtEvents = 0
    /\ onlySendPoll = TRUE
    /\ ceAtCall = FALSE
    /\ chipAw = AwAfterReset
    /\ todo = <<>>
    /\ batch = {}
    /\ batchRet = "Open"

Next ==
    \/ Send
    \/ PollSend
    \/ PollSendFlush
    \/ PollSendClear
    \/ WaitEmpty
    \/ Standby
    \/ WaitEmptyLoop
    \/ WaitEmptyFlush
    \/ WaitEmptyClear
    \/ FlushTx
    \/ StandbyToTx
    \/ StandbyToRx
    \/ RxToStandby
    \/ DeviceTransmitted
    \/ DeviceMaxRt

Spec == Init /\ [][Next]_vars

\* The driver from before NRF24L01::new is called: the pin may be at either level,
\* the chip may have been left configured as a receiver by an earlier run, nothing
\* owns the Device yet
InitUnbuilt ==
    /\ mode = "None"
    /\ pc = "unbuilt"
    /\ caller = "none"
    /\ ce \in BOOLEAN
    /\ config = 0
    /\ chipConfig \in {ConfigOfNew, ConfigSetPrimRx(ConfigAfterNew, TRUE)}
    /\ txFifo \in {<<>>, <<StalePacket>>}
    /\ tx_ds = FALSE
    /\ max_rt = FALSE
    /\ we_empty = FALSE
    /\ log = <<>>
    /\ lastRead = [status |-> 0, tx_empty |-> FALSE]
    /\ result = Ret("none", "Ok", 0)
    /\ nextId = 1
    /\ sent = {}
    /\ flushed = {}
    /\ refused = {}
    /\ pollFlushes = 0
    /\ pollOkFalse = 0
    /\ maxRtEvents = 0
    /\ onlySendPoll = TRUE
    /\ ceAtCall = FALSE
    /\ chipAw \in AwReadbacks
    /\ todo = <<>>
    /\ batch = {}
    /\ batchRet = "Open"

\* Construction, the configuration facade, the mode transitions and the
\* Transmit-mode operations that need no send
NextConfig ==
    \/ New
    \/ NewFeature
    \/ NewPowerUp
    \/ SetFrequency
    \/ SetRf
    \/ SetCrc
    \/ SetInterruptMask
    \/ SetPipesRxEnable
    \/ SetRxAddr
    \/ SetTxAddr
    \/ SetAutoRetransmit
    \/ SetAutoAck
    \/ SetAddressWidth
    \/ FlushTx
    \/ StandbyToTx
    \/ StandbyToRx
    \/ RxToStandby
    \/ PollSend
    \/ PollSendFlush
    \/ PollSendClear
    \/ WaitEmpty
    \/ Standby
    \/ WaitEmptyLoop
    \/ WaitEmptyFlush
    \/ WaitEmptyClear
    \/ DeviceTransmitted
    \/ DeviceMaxRt

ConfigSpec == InitUnbuilt /\ [][NextConfig]_vars

\* Number of packets queued with send() in a run of FacadeSpec
MaxFacadeSends == 1

\* send(packet), for the first MaxFacadeSends packets
SendFew == nextId <= MaxFacadeSends /\ Send

\* The chip gives up on a packet at most MaxFacadeSends times per Transmit mode
DeviceMaxRtFew == maxRtEvents < MaxFacadeSends /\ DeviceMaxRt

\* Every operation of the configuration facade, called in any mode and between
\* send and poll_send in Transmit mode
NextFacade ==
    \/ FlushRx
    \/ FlushTx
    \/ GetFrequency
    \/ SetFrequency
    \/ SetRf
    \/ SetCrcTo("TwoBytes")
    \/ SetInterruptMaskTo(<<FALSE, FALSE, FALSE>>)
    \/ SetPipesRxEnable
    \/ SetRxAddr
    \/ SetTxAddr
    \/ SetAutoRetransmit
    \/ GetAutoAck
    \/ SetAutoAck
    \/ GetAddressWidth
    \/ SetAddressWidthTo(MAX_ADDR_BYTES)
    \/ GetInterrupts
    \/ ClearInterrupts
    \/ SetPipesRxLengths
    \/ SetPipesRxLengthsNext
    \/ StandbyToTx
    \/ StandbyToRx
    \/ RxToStandby
    \/ SendFew
    \/ PollSend
    \/ PollSendFlush
    \/ PollSendClear
    \/ DeviceTransmitted
    \/ DeviceMaxRtFew

\* The constructed driver with nothing left in the TX FIFO
InitFacade == Init /\ txFifo = <<>>

FacadeSpec == InitFacade /\ [][NextFacade]_vars

----------------------------------------------------------------------------
\* Properties of poll_send

\* poll_send has returned and nothing was called since
PollSendReturned == pc = "idle" /\ result.op = "poll_send" /\ result.ret # "Panic"

ReadFifoStatus == Cmd("R_FIFO_STATUS", 0)
FlushTxCmd == Cmd("FLUSH_TX", 0)
WriteStatusClear == Cmd("W_STATUS", 48)

\* Bus exchanges among the entries of a log
NumExchanges(l) == Cardinality({i \in 1..Len(l) : l[i][1] # "CE"})

\* C1: a poll_send that read MAX_RT set, whatever TX_EMPTY was, has issued exactly
\* one FLUSH_TX, then written Status with TX_DS and MAX_RT set (0x30), then lowered
\* chip-enable, and has returned Ok(false); on the way it flushes before it clears.
C1_MaxRtFlushesClearsAndFails ==
    /\ (PollSendReturned /\ StatusMaxRt(lastRead.status)) =>
          /\ log = <<ReadFifoStatus, FlushTxCmd, WriteStatusClear, CeLow>>
          /\ result.ret = "OkFalse"
          /\ ~ce
    /\ (pc = "poll_flush") => (StatusMaxRt(lastRead.status) /\ log = <<ReadFifoStatus>>)
    /\ (pc = "poll_clear_false") =>
          (StatusMaxRt(lastRead.status) /\ log = <<ReadFifoStatus, FlushTxCmd>>)

\* poll_send reported failure after reading MAX_RT set together with TX_EMPTY set
C1_Witness ==
    /\ PollSendReturned
    /\ result.ret = "OkFalse"
    /\ StatusMaxRt(lastRead.status)
    /\ lastRead.tx_empty

\* C2: a poll_send that read MAX_RT clear and TX_EMPTY set has issued no FLUSH_TX,
\* has written Status with TX_DS and MAX_RT set, left chip-enable low and returned
\* Ok(true); so does the poll_send right after a send whose packet is already out.
C2_EmptyClearsAndSucceeds ==
    (PollSendReturned /\ ~StatusMaxRt(lastRead.status) /\ lastRead.tx_empty) =>
        /\ log = <<ReadFifoStatus, WriteStatusClear, CeLow>>
        /\ result.ret = "OkTrue"
        /\ ~ce
        /\ ~max_rt
        /\ ~tx_ds

\* send(1) and then one poll_send that found the FIFO empty: Ok(true), chip-enable low
C2_Witness ==
    /\ PollSendReturned
    /\ result.ret = "OkTrue"
    /\ ~ce
    /\ nextId = 2
    /\ sent = {1}
    /\ ceAtCall

\* C3: a poll_send that read MAX_RT clear and TX_EMPTY clear has set chip-enable
\* high whatever its level was, returned WouldBlock, and issued neither FLUSH_TX nor
\* a Status write; any poll_send performs at most three bus exchanges.
C3_PendingRaisesCe ==
    /\ (PollSendReturned /\ ~StatusMaxRt(lastRead.status) /\ ~lastRead.tx_empty) =>
          /\ ce
          /\ result.ret = "WouldBlock"
          /\ log = <<ReadFifoStatus, CeHigh>>
    /\ (PollSendReturned \/ pc \in {"poll_flush", "poll_clear_true", "poll_clear_false"}) =>
          NumExchanges(log) <= 3

\* poll_send returned WouldBlock and raised a chip-enable that was low
C3_Witness ==
    /\ PollSendReturned
    /\ result.ret = "WouldBlock"
    /\ ~ceAtCall
    /\ ce

\* Counted at the returns of the calls: flushes against failures reported, and
\* MAX_RT events against failures reported plus the one still pending
C4_CountsAgree ==
    InTx =>
        /\ pollFlushes = pollOkFalse
        /\ onlySendPoll => (maxRtEvents = pollOkFalse + B(max_rt))

\* The step after a poll_send that returned Ok(false) neither flushes nor fails again
C4_NoSecondFlush ==
    (InTx /\ result.op = "poll_send" /\ result.ret = "OkFalse") =>
        /\ pc' \notin {"poll_flush", "poll_clear_false"}
        /\ pollFlushes' = pollFlushes
        /\ pollOkFalse' = pollOkFalse

\* C4: counted at the returns of the calls, poll_send has issued as many FLUSH_TX
\* as it has returned Ok(false), and while only send and poll_send are called
\* every MAX_RT the chip raised is either still pending or was reported by one
\* Ok(false); the call that follows an Ok(false) never takes the flush branch.
C4_FlushOncePerFailure == [](C4_CountsAgree) /\ [][C4_NoSecondFlush]_vars

\* Every packet queued was flushed by the one flush of a failed poll_send, and the
\* poll_send after it returned Ok(true)
C4_Witness ==
    /\ PollSendReturned
    /\ result.ret = "OkTrue"
    /\ pollOkFalse = 1
    /\ pollFlushes = 1
    /\ nextId > 1
    /\ flushed = 1..(nextId - 1)

----------------------------------------------------------------------------
\* Properties of send

\* nextId advances in the step of a send that returns Ok, and in no other
SendReturns == nextId' # nextId

SendEffects ==
    /\ InTx
    /\ pc' = "idle"
    /\ mode' = "Tx"
    /\ log' = <<Cmd("W_TX_PAYLOAD", nextId), CeHigh>>
    /\ ce'
    /\ result' = Ret("send", "Ok", ChipStatus)
    /\ lastRead' = lastRead

\* C5 as stated: a send that returns Ok has issued one W_TX_PAYLOAD and nothing
\* else on the bus, then raised chip-enable, returns the Status byte of that
\* exchange, and its packet is queued in the transmit FIFO.
C5_SendAlwaysQueues ==
    [][SendReturns => (SendEffects /\ txFifo' = Append(txFifo, nextId))]_vars

\* C5, amended: as above, and the packet is queued at the tail of the transmit FIFO
\* whenever the FIFO had space for it (send does not look at TX_FULL).
C5_SendQueuesWhenSpace ==
    [][SendReturns =>
         /\ SendEffects
         /\ (Len(txFifo) < TxFifoDepth) => (txFifo' = Append(txFifo, nextId))]_vars

\* send has returned Ok: chip-enable is high and its packet sits behind another one
C5_Witness ==
    /\ pc = "idle"
    /\ result.op = "send"
    /\ result.ret = "Ok"
    /\ ce
    /\ Len(txFifo) >= 2
    /\ txFifo[Len(txFifo)] = nextId - 1

----------------------------------------------------------------------------
\* Properties of wait_empty and standby

InWaitEmpty == pc \in {"we_read", "we_flush", "we_clear"}

WaitEmptyReturned == pc = "idle" /\ mode = "Tx" /\ result = Ret("wait_empty", "Ok", 0)

\* C6: wait_empty has returned only after a read that reported TX_EMPTY, with
\* chip-enable low; after a pass whose read reported the FIFO non-empty and MAX_RT
\* clear it is still in its loop with chip-enable high.
C6_ReturnsOnlyWhenEmpty ==
    /\ WaitEmptyReturned => (lastRead.tx_empty /\ ~ce)
    /\ (InWaitEmpty /\ ~lastRead.tx_empty /\ ~StatusMaxRt(lastRead.status)) =>
          (pc = "we_read" /\ ce)
    /\ (pc = "we_read") => ~lastRead.tx_empty

\* wait_empty returned after a packet went out
C6_Witness ==
    /\ WaitEmptyReturned
    /\ lastRead.tx_empty
    /\ ~ce
    /\ tx_ds
    /\ sent # {}

DeviceProgress == DeviceTransmitted \/ DeviceMaxRt

\* The executor keeps polling the wait_empty future, and the chip keeps working
\* on the packet at the head of its FIFO
FairSpec ==
    /\ Spec
    /\ WF_vars(WaitEmptyLoop)
    /\ WF_vars(WaitEmptyFlush)
    /\ WF_vars(WaitEmptyClear)
    /\ WF_vars(DeviceProgress)

\* After a pass that read MAX_RT set and went round again, the FIFO is flushed and
\* MAX_RT clear: the next read reports it empty
C7_FlushedAfterLimit ==
    (pc = "we_read" /\ StatusMaxRt(lastRead.status)) => (txFifo = <<>> /\ ~max_rt)

\* C7: on a chip that keeps working on the head of its FIFO (sending it, or giving
\* up on it with MAX_RT), a running wait_empty comes to an end; once a pass has
\* read MAX_RT the next pass is the last.
C7_WaitEmptyTerminates ==
    /\ [](C7_FlushedAfterLimit)
    /\ (InWaitEmpty ~> (pc \in {"idle", "panicked"}))

\* wait_empty returned after it flushed an undeliverable packet itself
C7_Witness ==
    /\ WaitEmptyReturned
    /\ maxRtEvents >= 1
    /\ pollFlushes = 0
    /\ ~max_rt
    /\ flushed # {}
    /\ sent = {}

\* C8: right after the flush of poll_send or wait_empty the transmit FIFO is empty;
\* a flushed packet is neither in the FIFO nor ever transmitted; every packet
\* passed to send is in the FIFO, transmitted, flushed or was refused by a full FIFO.
C8_FlushDropsAllQueued ==
    /\ (pc \in {"poll_clear_false", "we_clear"}) => (txFifo = <<>>)
    /\ flushed \cap sent = {}
    /\ flushed \cap Range(txFifo) = {}
    /\ \A p \in 1..(nextId - 1) : p \in (Range(txFifo) \cup sent \cup flushed \cup refused)

\* wait_empty has just flushed the undeliverable packet 1 and packet 2 behind it,
\* chip-enable still high
C8_Witness ==
    /\ pc = "we_clear"
    /\ ce
    /\ max_rt
    /\ result.op = "send"
    /\ nextId = 3
    /\ flushed = {1, 2}

\* The Standby that standby() yielded
C9_DrainedInStandby ==
    (mode = "Standby" /\ result.op = "standby") =>
        /\ result.ret = "Ok"
        /\ pc = "idle"
        /\ lastRead.tx_empty
        /\ txFifo = <<>>
        /\ ~ce

\* The step from Transmit to Standby
C9_OnlyThroughDrain ==
    (mode = "Tx" /\ mode' = "Standby") =>
        /\ result' = Ret("standby", "Ok", 0)
        /\ lastRead'.tx_empty
        /\ txFifo' = <<>>
        /\ ~ce'

\* C9: when standby() has yielded Standby, the last FIFO_STATUS read reported the
\* transmit FIFO empty, the FIFO is empty and chip-enable is low; Transmit is left
\* for Standby in no other way.
C9_StandbyDrainsFirst == [](C9_DrainedInStandby) /\ [][C9_OnlyThroughDrain]_vars

\* standby() yielded Standby after one packet went out and another was flushed
C9_Witness ==
    /\ mode = "Standby"
    /\ result = Ret("standby", "Ok", 0)
    /\ ~ce
    /\ sent # {}
    /\ flushed # {}

\* C10 as stated: when standby() fails on a bus exchange, the caller still holds
\* the Transmit mode value (and through it the Device).
C10_FailedStandbyKeepsMode ==
    (result.op = "standby" /\ result.ret # "Ok") => (mode = "Tx")

----------------------------------------------------------------------------
\* Properties of chip-enable in Transmit mode

\* poll_send has returned Ok(true) or Ok(false) and nothing was called since
PollSendReturnedOk == PollSendReturned /\ result.ret \in {"OkTrue", "OkFalse"}

\* C11 as stated: in Transmit mode chip-enable is high only while the transmit
\* FIFO still holds a packet, and low whenever nothing is being sent.
C11_CeHighOnlyWhileQueued == (mode = "Tx" /\ ce) => (txFifo # <<>>)

\* C11: in Transmit mode chip-enable is low when TxMode is created, after every
\* poll_send that returned Ok and after every wait_empty that returned; between
\* calls it is high only after a send or a poll_send that returned WouldBlock (a
\* flush_tx in between leaves it as it was), also when the FIFO has emptied since.
C11_CeLowAfterCompletion ==
    /\ (InTx /\ result.op \in {"tx", "wait_empty"}) => ~ce
    /\ PollSendReturnedOk => ~ce
    /\ (InTx /\ ce) =>
          \/ result.op \in {"send", "flush_tx"}
          \/ result = Ret("poll_send", "WouldBlock", 0)

\* the packet of send(1) has gone out, poll_send was not called yet: chip-enable
\* is still high over an empty FIFO
C11_Witness ==
    /\ InTx
    /\ result.op = "send"
    /\ ce
    /\ txFifo = <<>>
    /\ sent = {1}

----------------------------------------------------------------------------
\* Properties of the cached Config and of the configuration facade

\* Operations that went through update_config
UpdateConfigOps == {"set_crc", "set_interrupt_mask", "tx", "rx"}

\* C12 as stated: after construction and after every update_config call, one
\* whose write-back failed included, the cached Config equals the CONFIG register
\* the chip last accepted.
C12_CacheEqualsChipConfig ==
    (result.op \in UpdateConfigOps \/ result = Ret("new", "Ok", 0)) =>
        (config = chipConfig)

\* A step in which an operation that goes through update_config ran from call
\* to return
UpdateConfigStep ==
    /\ pc = "idle"
    /\ pc' \in {"idle", "panicked"}
    /\ result'.op \in UpdateConfigOps
    /\ <<result, log, config>>' # <<result, log, config>>

\* update_config writes CONFIG, once and with the new value, exactly when the
\* mutation changed the cached value
C13_WriteIffChanged ==
    UpdateConfigStep =>
        IF config' # config
        THEN (result'.ret = "Ok") =>
                 (NumExchanges(log') = 1 /\ Head(log') = Cmd("W_CONFIG", config'))
        ELSE result'.ret = "Ok" /\ NumExchanges(log') = 0

\* The setters that do not go through update_config
PlainSetters ==
    {"set_frequency", "set_rf", "set_auto_ack", "set_auto_retransmit",
     "set_pipes_rx_enable", "set_rx_addr", "set_tx_addr"}

\* The register a setter writes
SetterRegister(op, arg) ==
    CASE op = "set_frequency" -> "W_RF_CH"
      [] op = "set_rf" -> "W_RF_SETUP"
      [] op = "set_auto_ack" -> "W_EN_AA"
      [] op = "set_auto_retransmit" -> "W_SETUP_RETR"
      [] op = "set_pipes_rx_enable" -> "W_EN_RXADDR"
      [] op = "set_rx_addr" -> RxAddrReg(arg)
      [] op = "set_tx_addr" -> "W_TX_ADDR"

\* Every call of a plain setter that returned has written its register
C13_SettersAlwaysWrite ==
    (pc = "idle" /\ result.op \in PlainSetters /\ result.ret = "Ok") =>
        /\ Len(log) = 1
        /\ log[1][1] = SetterRegister(result.op, result.val)

\* C13: set_crc, set_interrupt_mask and the mode transitions write CONFIG if and
\* only if the mutated value differs from the cached one, so a repeated set_crc or
\* set_interrupt_mask issues no bus exchange; every other setter of the facade
\* writes its register on every call.
C13_ConfigWrittenOnlyOnChange ==
    [](C13_SettersAlwaysWrite) /\ [][C13_WriteIffChanged]_vars

\* set_crc(TwoBytes) called again while the cache already says two-byte CRC: it
\* returned Ok without a bus exchange
C13_Witness ==
    /\ pc = "idle"
    /\ result = Ret("set_crc", "Ok", 0)
    /\ log = <<>>
    /\ Bit(config, 2)
    /\ Bit(config, 3)

----------------------------------------------------------------------------
\* Properties of a failed bus exchange

\* C14 as stated: a bus exchange that fails makes the operation return an error
\* result to its caller; no operation ends by aborting the program, and the mode
\* value that was called still owns the Device.
C14_BusFailureIsErrorResult ==
    /\ result.ret # "Panic"
    /\ (result.op \in {"send", "poll_send", "wait_empty"}) => (mode = "Tx")

----------------------------------------------------------------------------
\* Properties of construction

ReadSetupAw == Cmd("R_SETUP_AW", 0)

\* The stages of new(): the probe comes first and nothing is written before it
C15_ProbeBeforeWrites ==
    /\ (pc = "new_feature") =>
          (log = <<CeLow, ReadSetupAw>> /\ SetupAwAw(chipAw) <= 3 /\ ~ce)
    /\ (pc = "new_power_up") =>
          (log = <<CeLow, ReadSetupAw, Cmd("W_FEATURE", FeatureOfNew)>> /\ ~ce)
    /\ (pc = "failed") =>
          /\ result = Ret("new", "NotConnected", 0)
          /\ log = <<CeLow, ReadSetupAw>>
          /\ SetupAwAw(chipAw) > 3
          /\ mode = "None"
          /\ ~ce
    /\ (result = Ret("new", "Ok", 0)) =>
          /\ mode = "Standby"
          /\ pc = "idle"
          /\ ~ce
          /\ log = <<Cmd("W_CONFIG", ConfigAfterNew)>>
          /\ chipConfig = ConfigAfterNew

\* The probe decides: a readback outside the valid range ends construction
C15_ProbeDecides ==
    (pc = "unbuilt" /\ pc' \in {"new_feature", "failed"}) =>
        (pc' = "failed" <=> SetupAwAw(chipAw) > 3)

\* C15: new() lowers chip-enable and reads SETUP_AW before it writes anything; a
\* readback above 3 ends it with NotConnected, no FEATURE write and no power-up;
\* otherwise it writes FEATURE, powers up and yields Standby with chip-enable low.
C15_ProbeThenFeatureThenPowerUp ==
    [](C15_ProbeBeforeWrites) /\ [][C15_ProbeDecides]_vars

\* new() on a bus that reads all ones has failed with NotConnected
C15_Witness ==
    /\ pc = "failed"
    /\ result = Ret("new", "NotConnected", 0)
    /\ chipAw = 255
    /\ log = <<CeLow, ReadSetupAw>>

----------------------------------------------------------------------------
\* Properties of the facade's input checks

\* C16 as stated: set_address_width(w) with w outside 2..5 fails fast and writes
\* nothing to SETUP_AW.
C16_BadWidthRejected ==
    (/\ pc \in {"idle", "panicked"}
     /\ result.op = "set_address_width"
     /\ result.ret # "Panic"
     /\ result.val \notin MIN_ADDR_BYTES..MAX_ADDR_BYTES) =>
        (result.ret = "Abort" /\ log = <<>>)

\* The setters that check their input, and the inputs they accept
CheckedSetters == {"set_frequency", "set_rf", "set_rx_addr"}

InputInRange(op, arg) ==
    CASE op = "set_frequency" -> arg < 126
      [] op = "set_rf" -> arg < 4
      [] op = "set_rx_addr" -> arg \in 0..(PIPES_COUNT - 1)

\* C17: set_frequency with an offset of 126 or more, set_rf with a power of 4 or
\* more and set_rx_addr with a pipe outside 0..5 abort with no bus exchange and no
\* value returned to the caller; with an input in range each of them issues its one
\* register write.
C17_InputCheckedBeforeBus ==
    (/\ pc \in {"idle", "panicked"}
     /\ result.op \in CheckedSetters
     /\ result.ret # "Panic") =>
        IF InputInRange(result.op, result.val)
        THEN /\ result.ret = "Ok"
             /\ pc = "idle"
             /\ Len(log) = 1
             /\ log[1][1] = SetterRegister(result.op, result.val)
        ELSE /\ result.ret = "Abort"
             /\ pc = "panicked"
             /\ mode = "None"
             /\ log = <<>>

\* set_frequency(126) aborted in Receive mode without touching the bus
C17_Witness ==
    /\ result = Ret("set_frequency", "Abort", 126)
    /\ pc = "panicked"
    /\ log = <<>>
    /\ ConfigPrimRx(chipConfig)
    /\ ce

----------------------------------------------------------------------------
\* Properties of the mode transitions

Modes == {"Standby", "Rx", "Tx"}

\* The edges of the mode graph; construction enters it at Standby
ModeEdges ==
    {<<"None", "Standby">>, <<"Standby", "Rx">>, <<"Rx", "Standby">>,
     <<"Standby", "Tx">>, <<"Tx", "Standby">>}

\* A step that makes another mode value the owner follows an edge of the graph
C18_FollowsModeGraph == (mode' # mode /\ mode' \in Modes) => (<<mode, mode'>> \in ModeEdges)

\* new() has yielded a mode value, and no contract violation has aborted since
Constructed ==
    /\ result.op # "none"
    /\ (result.op = "new") => (result.ret = "Ok")
    /\ result.ret # "Abort"

\* Once constructed, one of the three mode values owns the Device
C18_OneOwner == Constructed => (mode \in Modes)

\* C18 as stated: construction yields Standby, modes change only along Standby
\* to/from Receive and Standby to/from Transmit, and at every moment exactly one
\* mode value owns the Device.
C18_ModeGraphWithOneOwner == [](C18_OneOwner) /\ [][C18_FollowsModeGraph]_vars

\* The mode graph alone
C18_ModeGraphOnly == [][C18_FollowsModeGraph]_vars

----------------------------------------------------------------------------
\* poll_send against wait_empty

\* What both leave behind: FIFO empty, chip-enable low, MAX_RT clear
Drained == txFifo = <<>> /\ ~ce /\ ~max_rt

----------------------------------------------------------------------------
\* What the Ok returns of poll_send say about the packets

\* C20: while only send and poll_send are called on a Transmit mode, a poll_send
\* that returned Ok(true) means every packet send queued since the previous Ok
\* return was transmitted, and a packet of those that was flushed has been
\* reported by the Ok(false) that closed them.
C20_OkTrueMeansAllSent ==
    (mode = "Tx" /\ onlySendPoll) =>
        /\ PollSendReturnedOk => (batchRet = result.ret)
        /\ (batchRet = "OkTrue") => (batch \subseteq sent /\ batch \cap flushed = {})
        /\ (pc = "idle" /\ batch \cap flushed # {}) => (batchRet = "OkFalse")

\* packet 1 was dropped and reported by Ok(false); packet 2, queued after that,
\* went out and poll_send returned Ok(true)
C20_Witness ==
    /\ mode = "Tx"
    /\ onlySendPoll
    /\ PollSendReturnedOk
    /\ batchRet = "OkTrue"
    /\ batch = {2}
    /\ flushed = {1}
    /\ pollOkFalse = 1


-----------------------------------------------------------------------------
\* The configuration facade and the chip-enable output

\* The operations of trait Configuration
FacadeOps ==
    {"flush_rx", "flush_tx", "get_frequency", "set_frequency", "set_rf", "set_crc",
     "set_interrupt_mask", "set_pipes_rx_enable", "set_rx_addr", "set_tx_addr",
     "set_auto_retransmit", "get_auto_ack", "set_auto_ack", "get_address_width",
     "set_address_width", "get_interrupts", "clear_interrupts", "set_pipes_rx_lengths"}

\* A step of a facade operation: a whole call that returns, aborts or panics, or
\* one exchange of set_pipes_rx_lengths
FacadeStep ==
    \/ /\ pc = "idle"
       /\ pc' \in {"idle", "panicked"}
       /\ result'.op \in FacadeOps
       /\ <<result, log>>' # <<result, log>>
    \/ pc = "idle" /\ pc' = "rx_lengths"
    \/ pc = "rx_lengths" /\ (log' # log \/ pc' = "panicked")

\* C21: no operation of the configuration facade changes the chip-enable output
\* or the current mode (a call that does not return ends the program, and leaves
\* chip-enable alone too); called in Transmit mode between send and poll_send it
\* leaves chip-enable as send or poll_send left it
C21_FacadeKeepsCeAndMode ==
    [][FacadeStep => (ce' = ce /\ (mode' = mode \/ pc' = "panicked"))]_vars

\* set_pipes_rx_lengths has returned after send queued packet 1 and before any
\* poll_send: the packet is still queued and chip-enable is still high
C21_Witness ==
    /\ mode = "Tx"
    /\ pc = "idle"
    /\ result = Ret("set_pipes_rx_lengths", "Ok", 0)
    /\ Len(log) = Len(RxLengthsCommands([i \in 1..PIPES_COUNT |-> IF i = 1 THEN <<>> ELSE <<32>>]))
    /\ nextId = 2
    /\ txFifo = <<1>>
    /\ pollFlushes = 0
    /\ ce

====
